---- MODULE Spec2Model ----
(***************************************************************************)
(* Business-day time bucketing and aggregation of the ptv-data programs.   *)
(*                                                                         *)
(* Five programs fold a sequence of CSV records into per-line histograms:  *)
(*   CSV          generateCSV.rs                  hourly, first date only  *)
(*   Graph        generateGraph.rs                hourly, first date only  *)
(*   Quarter      generateData-15min.rs           96 buckets, first date   *)
(*   QuarterLine  generateData-15min-linespecifier.rs  96 buckets per      *)
(*                (date, line), optional line filter, clamped index        *)
(*   Nmin         generateData-5min-linespecifier.rs   N-minute blocks,    *)
(*                first date only, clamped index                           *)
(*                                                                         *)
(* Representation.                                                         *)
(*   - A string of the input is a tuple of one-character strings           *)
(*     (<<"P","k">>), so that to_lowercase is computed character by        *)
(*     character.                                                          *)
(*   - A time field is the tuple of its numeric fields <<h, m, s>>; the    *)
(*     empty field is <<>>.  A date field is <<year, month, day>>.         *)
(*   - Option<T> is a tuple of length 0 (None) or 1 (Some).                *)
(*   - f64 hours are kept as exact integer minutes: decimal_time and the   *)
(*     business offset are multiplied by 60.  f64::round is rounding half  *)
(*     away from zero.  For the interval counts modelled here (1, 2, 4 and *)
(*     12 per hour) the f64 evaluation of the source and the exact         *)
(*     arithmetic agree for every hour and minute of the day.              *)
(*   - A Vec is a sequence; index i of the source is position i + 1.       *)
(*   - Counts are small, so i32 addition does not overflow and the f64     *)
(*     sums are exact.                                                     *)
(***************************************************************************)
EXTENDS Integers, Sequences, FiniteSets, TLC

VARIABLES
    variant,                  \* which program runs
    args,                     \* the command-line arguments after the program name
    pc,                       \* "start", "loop", "done", "panicked"
    specified_line,           \* QuarterLine: Option<String>, lower-cased
    block_size,               \* Nmin
    intervals_per_hour,       \* Nmin
    total_intervals,          \* Nmin
    time_series,              \* line -> Vec, or date -> line -> Vec (QuarterLine)
    selected_business_date,   \* Option<String> (first_date in Nmin)
    boardings_per_line,       \* CSV, Graph
    alightings_per_line,      \* CSV, Graph
    services_count,           \* CSV, Graph
    processed,                \* history: the records read so far, in input order
    hit,                      \* Option: the histogram access of the last record
    clock,                    \* the departure time under test (clock specification)
    train_services,           \* Flow Estimator: Vec<TrainService>
    passenger_flow,           \* Flow Estimator: Vec<(f64, f64)>
    labels                    \* the time labels the exporter wrote, per histogram

vars == <<variant, args, pc, specified_line, block_size, intervals_per_hour,
          total_intervals, time_series, selected_business_date,
          boardings_per_line, alightings_per_line, services_count,
          processed, hit, clock,
                   train_services, passenger_flow, labels>>

\* The longest input the aggregation specification reads.
MaxEvents == 3

None == << >>
Some(x) == << x >>

Variants == {"CSV", "Graph", "Quarter", "QuarterLine", "Nmin"}
FirstSeenVariants == {"CSV", "Graph", "Quarter", "Nmin"}
HourlyVariants == {"CSV", "Graph"}

-----------------------------------------------------------------------------
(* Inputs *)

D1 == <<2022, 9, 12>>
D2 == <<2022, 9, 13>>
DBad == <<2022, 13, 1>>

Rec(d, l, t, b, a) ==
    [Business_Date |-> d, Line_Name |-> l, Departure_Time_Scheduled |-> t,
     Passenger_Boardings |-> b, Passenger_Alightings |-> a]

E1 == Rec(D1, <<"X">>, <<3, 0, 0>>, 5, 0)
E2 == Rec(D1, <<"X">>, <<3, 10, 0>>, 3, 2)
E3 == Rec(D2, <<"X">>, <<4, 0, 0>>, 1, 1)

Records ==
    { E1, E2, E3,
      Rec(D1, <<"P", "k">>, <<2, 53, 0>>, 2, 1),
      Rec(D2, <<"p", "K">>, <<23, 59, 59>>, 1, 0),
      Rec(D1, <<"X">>, <<25, 61, 0>>, 4, 4),
      Rec(D2, <<"P", "k">>, << >>, 1, 0),
      Rec(D1, <<"x">>, <<3, 8, 0>>, 0, 2),
      Rec(D2, <<"X">>, <<0, 0, 0>>, 0, 0),
      Rec(DBad, <<"P", "k">>, <<4, 0, 0>>, 1, 1) }

LineArgs == { <<"P", "k">>, <<"x">>, <<"K">> }
BlockArgs == { 0, 15, 30, 60, 90 }

-----------------------------------------------------------------------------
(* Library functions the programs call *)

\* char::to_lowercase on the letters of the inputs
LowerChar(c) ==
    CASE c = "P" -> "p"
      [] c = "K" -> "k"
      [] c = "X" -> "x"
      [] OTHER -> c

\* str::to_lowercase
ToLower(s) == [i \in DOMAIN s |-> LowerChar(s[i])]

\* NaiveTime::parse_from_str(_, "%H:%M:%S").is_ok(); chrono takes second 60
\* as a leap second
ParseTimeOk(t) ==
    /\ Len(t) = 3
    /\ t[1] \in 0..23
    /\ t[2] \in 0..59
    /\ t[3] \in 0..60

IsLeap(y) == (y % 4 = 0 /\ y % 100 # 0) \/ y % 400 = 0

DaysIn(y, m) ==
    IF m = 2 THEN (IF IsLeap(y) THEN 29 ELSE 28)
    ELSE IF m \in {4, 6, 9, 11} THEN 30 ELSE 31

\* NaiveDate::parse_from_str(_, "%Y-%m-%d").is_ok()
ParseDateOk(d) ==
    /\ Len(d) = 3
    /\ d[2] \in 1..12
    /\ d[3] \in 1..DaysIn(d[1], d[2])

\* f64::round of n / d for n >= 0, d > 0: half away from zero
RoundDiv(n, d) == (2 * n + d) \div (2 * d)

\* vec![0; n]
Zeros(n) == [i \in 1..n |-> 0]

\* Mutant: the entry is replaced by a fresh value on every access.
OrInsertAlways(map, k, v) ==
    [x \in DOMAIN map \cup {k} |-> IF x = k THEN v ELSE map[x]]

\* map.entry(k).or_insert_with(|| v)
OrInsert(map, k, v) ==
    [x \in DOMAIN map \cup {k} |-> IF x \in DOMAIN map THEN map[x] ELSE v]

\* Mutant: the bucket is assigned, not added to.
AddAtSet(vec, i, n) == [vec EXCEPT ![i + 1] = n]

\* entry[i] += n, for i within the vector
AddAt(vec, i, n) == [vec EXCEPT ![i + 1] = @ + n]

-----------------------------------------------------------------------------
(* Time Normalizer and Bucket Mapper, as each program writes them *)

Hour(t) == t[1]
Minute(t) == t[2]

\* Mutant: the wrap of the hours before 03:00 adds 12 hours, not 24.
DecimalTimeMinHalfDay(t) ==
    IF Hour(t) < 3
    THEN (Hour(t) + 12) * 60 + Minute(t)
    ELSE Hour(t) * 60 + Minute(t)

\* Mutant: the day boundary is tested as hour < 4.
DecimalTimeMinLateBoundary(t) ==
    IF Hour(t) < 4
    THEN (Hour(t) + 24) * 60 + Minute(t)
    ELSE Hour(t) * 60 + Minute(t)

\* 60 * decimal_time
DecimalTimeMin(t) ==
    IF Hour(t) < 3
    THEN (Hour(t) + 24) * 60 + Minute(t)
    ELSE Hour(t) * 60 + Minute(t)

\* 60 * (decimal_time - 3.0)
BusinessOffsetMin(t) == DecimalTimeMin(t) - 3 * 60

\* Mutant: the day boundary is tested as hour <= 3.
BusinessHourLateBoundary(t) == IF Hour(t) <= 3 THEN Hour(t) + 21 ELSE Hour(t) - 3

BusinessHour(t) == IF Hour(t) < 3 THEN Hour(t) + 21 ELSE Hour(t) - 3

\* ((decimal_time - 3.0) * 4.0).round() as usize
TimeBlockQuarter(t) == RoundDiv(BusinessOffsetMin(t) * 4, 60)

\* the same, then .min(95)
TimeBlockQuarterLine(t) ==
    LET time_block == RoundDiv(BusinessOffsetMin(t) * 4, 60)
    IN  IF time_block < 95 THEN time_block ELSE 95

\* ((decimal_time - 3.0) * intervals_per_hour as f64).round() as usize
TimeBlockNminRaw(t, iph) == RoundDiv(BusinessOffsetMin(t) * iph, 60)

\* .min(total_intervals as usize - 1), for total > 0
TimeBlockNmin(t, iph, total) ==
    LET time_block == TimeBlockNminRaw(t, iph)
    IN  IF time_block < total - 1 THEN time_block ELSE total - 1

IntervalsPerHour(bs) == 60 \div bs
TotalIntervals(iph) == (24 - 3) * iph

Movement(rec) == rec.Passenger_Boardings + rec.Passenger_Alightings

\* Mutant: every record overwrites the selected date.
SelectDateLatest(sel, rec) == Some(rec.Business_Date)

\* if selected_business_date.is_none() { selected_business_date = Some(date) }
SelectDate(sel, rec) == IF sel = None THEN Some(rec.Business_Date) ELSE sel

-----------------------------------------------------------------------------
(* The loop body of each program, as a function of the aggregation state   *)
(* (time_series, the selected date, running or panicked) and one record.   *)

EmptyMap == << >>

\* time_series.entry(key).or_insert_with(|| vec![0; len]), then
\* entry[idx] += n: an index outside the vector panics, after the insertion
Accumulate(ts, key, len, idx, n) ==
    LET inserted == OrInsert(ts, key, Zeros(len))
    IN  IF idx < Len(inserted[key])
        THEN [ts |-> [inserted EXCEPT ![key] = AddAt(@, idx, n)], pc |-> "loop"]
        ELSE [ts |-> inserted, pc |-> "panicked"]

\* the same on time_series.entry(date).or_insert_with(HashMap::new)
AccumulateByDate(ts, date, key, len, idx, n) ==
    LET dated == OrInsert(ts, date, EmptyMap)
        r == Accumulate(dated[date], key, len, idx, n)
    IN  [ts |-> [dated EXCEPT ![date] = r.ts], pc |-> r.pc]

Skip(mem, sel) == [ts |-> mem.ts, sel |-> sel, pc |-> mem.pc, hit |-> None]

\* Mutant: the date of the record is not compared with the selected date.
StepCSVAnyDate(mem, rec) ==
    LET line == rec.Line_Name
        sel == SelectDate(mem.sel, rec)
        t == rec.Departure_Time_Scheduled
    IN  IF ParseTimeOk(t)
        THEN LET business_hour == BusinessHour(t)
                 r == Accumulate(mem.ts, line, 24, business_hour, Movement(rec))
             IN  [ts |-> r.ts, sel |-> sel, pc |-> r.pc,
                  hit |-> Some([key |-> line, idx |-> business_hour, len |-> 24])]
        ELSE Skip(mem, sel)

\* Mutant: the histogram of the line is created before the time is parsed.
StepCSVEagerEntry(mem, rec) ==
    LET line == rec.Line_Name
        sel == SelectDate(mem.sel, rec)
        t == rec.Departure_Time_Scheduled
        created == OrInsert(mem.ts, line, Zeros(24))
    IN  IF rec.Business_Date = sel[1] /\ ParseTimeOk(t)
        THEN LET business_hour == BusinessHour(t)
                 r == Accumulate(created, line, 24, business_hour, Movement(rec))
             IN  [ts |-> r.ts, sel |-> sel, pc |-> r.pc,
                  hit |-> Some([key |-> line, idx |-> business_hour, len |-> 24])]
        ELSE [ts |-> created, sel |-> sel, pc |-> mem.pc, hit |-> None]

StepCSV(mem, rec) ==
    LET line == rec.Line_Name
        sel == SelectDate(mem.sel, rec)
        t == rec.Departure_Time_Scheduled
    IN  IF rec.Business_Date = sel[1] /\ ParseTimeOk(t)
        THEN LET business_hour == BusinessHour(t)
                 r == Accumulate(mem.ts, line, 24, business_hour, Movement(rec))
             IN  [ts |-> r.ts, sel |-> sel, pc |-> r.pc,
                  hit |-> Some([key |-> line, idx |-> business_hour, len |-> 24])]
        ELSE Skip(mem, sel)

StepGraph(mem, rec) ==
    LET line == rec.Line_Name
        sel == SelectDate(mem.sel, rec)
        t == rec.Departure_Time_Scheduled
    IN  IF /\ rec.Business_Date = sel[1]
           /\ ParseDateOk(rec.Business_Date)
           /\ ParseTimeOk(t)
        THEN LET business_hour == BusinessHour(t)
                 r == Accumulate(mem.ts, line, 24, business_hour, Movement(rec))
             IN  [ts |-> r.ts, sel |-> sel, pc |-> r.pc,
                  hit |-> Some([key |-> line, idx |-> business_hour, len |-> 24])]
        ELSE Skip(mem, sel)

StepQuarter(mem, rec) ==
    LET line == rec.Line_Name
        sel == SelectDate(mem.sel, rec)
        t == rec.Departure_Time_Scheduled
    IN  IF rec.Business_Date = sel[1] /\ ParseTimeOk(t)
        THEN LET time_block == TimeBlockQuarter(t)
                 r == Accumulate(mem.ts, line, 96, time_block, Movement(rec))
             IN  [ts |-> r.ts, sel |-> sel, pc |-> r.pc,
                  hit |-> Some([key |-> line, idx |-> time_block, len |-> 96,
                                offset |-> BusinessOffsetMin(t)])]
        ELSE Skip(mem, sel)

\* if let Some(ref line_specifier) = specified_line { if line != *line_specifier { continue } }
LineMatches(filter, line) == filter = None \/ line = filter[1]

\* Mutant: a time that does not parse is counted in bucket 0.
StepQuarterLineFallback(filter, mem, rec) ==
    LET line == ToLower(rec.Line_Name)
        business_date == rec.Business_Date
        t == rec.Departure_Time_Scheduled
        time_block == IF ParseTimeOk(t) THEN TimeBlockQuarterLine(t) ELSE 0
    IN  IF LineMatches(filter, line)
        THEN LET r == AccumulateByDate(mem.ts, business_date, line, 96,
                                       time_block, Movement(rec))
             IN  [ts |-> r.ts, sel |-> mem.sel, pc |-> r.pc,
                  hit |-> Some([key |-> <<business_date, line>>, idx |-> time_block,
                                len |-> 96, offset |-> 0])]
        ELSE Skip(mem, mem.sel)

StepQuarterLineWith(filter, mem, rec) ==
    LET line == ToLower(rec.Line_Name)
        business_date == rec.Business_Date
        t == rec.Departure_Time_Scheduled
    IN  IF LineMatches(filter, line) /\ ParseTimeOk(t)
        THEN LET time_block == TimeBlockQuarterLine(t)
                 r == AccumulateByDate(mem.ts, business_date, line, 96,
                                       time_block, Movement(rec))
             IN  [ts |-> r.ts, sel |-> mem.sel, pc |-> r.pc,
                  hit |-> Some([key |-> <<business_date, line>>, idx |-> time_block,
                                len |-> 96, offset |-> BusinessOffsetMin(t)])]
        ELSE Skip(mem, mem.sel)

StepQuarterLine(mem, rec) == StepQuarterLineWith(specified_line, mem, rec)

\* With total_intervals = 0 the subtraction total_intervals as usize - 1
\* overflows: a debug build panics there, a release build wraps and the
\* index into the empty vector panics; both after the insertion.
StepNmin(mem, rec) ==
    LET line == ToLower(rec.Line_Name)
        sel == SelectDate(mem.sel, rec)
        t == rec.Departure_Time_Scheduled
    IN  IF rec.Business_Date = sel[1] /\ ParseTimeOk(t)
        THEN LET time_block ==
                     IF total_intervals = 0
                     THEN TimeBlockNminRaw(t, intervals_per_hour)
                     ELSE TimeBlockNmin(t, intervals_per_hour, total_intervals)
                 r == Accumulate(mem.ts, line, total_intervals, time_block,
                                 Movement(rec))
             IN  [ts |-> r.ts, sel |-> sel, pc |-> r.pc,
                  hit |-> Some([key |-> line, idx |-> time_block,
                                len |-> total_intervals,
                                offset |-> BusinessOffsetMin(t)])]
        ELSE Skip(mem, sel)

Step(v, mem, rec) ==
    CASE v = "CSV" -> StepCSV(mem, rec)
      [] v = "Graph" -> StepGraph(mem, rec)
      [] v = "Quarter" -> StepQuarter(mem, rec)
      [] v = "QuarterLine" -> StepQuarterLine(mem, rec)
      [] v = "Nmin" -> StepNmin(mem, rec)

\* for result in rdr.deserialize() { ... } over the records of seq; a panic
\* ends the run
RECURSIVE Fold(_, _, _)
Fold(v, mem, seq) ==
    IF seq = << >> \/ mem.pc = "panicked" THEN mem
    ELSE Fold(v, Step(v, mem, Head(seq)), Tail(seq))

RECURSIVE FoldQuarterLine(_, _, _)
FoldQuarterLine(filter, mem, seq) ==
    IF seq = << >> \/ mem.pc = "panicked" THEN mem
    ELSE FoldQuarterLine(filter, StepQuarterLineWith(filter, mem, Head(seq)),
                         Tail(seq))

\* *map.entry(line).or_insert(0) += n
\* Mutant: the total is assigned, not added to.
AddToSet(map, line, n) == [OrInsert(map, line, 0) EXCEPT ![line] = n]

AddTo(map, line, n) == [OrInsert(map, line, 0) EXCEPT ![line] = @ + n]

-----------------------------------------------------------------------------
(* The programs *)

Mem == [ts |-> time_series, sel |-> selected_business_date, pc |-> pc, hit |-> hit]

\* The records the input may hold, and how many it holds at most: the
\* sample records, or one record at the departure time under test.
Inputs ==
    IF clock = None THEN Records
    ELSE { Rec(D1, <<"P", "k">>, clock[1], 2, 1) }

InputLimit == IF clock = None THEN MaxEvents ELSE 1

ArgsOf(v) ==
    CASE v = "QuarterLine" -> { << >> } \cup { <<l>> : l \in LineArgs }
      [] v = "Nmin" -> { << >> } \cup { <<n>> : n \in BlockArgs }
      [] OTHER -> { << >> }

InitState ==
    /\ pc = "start"
    /\ specified_line = None
    /\ block_size = 0
    /\ intervals_per_hour = 0
    /\ total_intervals = 0
    /\ time_series = EmptyMap
    /\ selected_business_date = None
    /\ boardings_per_line = EmptyMap
    /\ alightings_per_line = EmptyMap
    /\ services_count = EmptyMap
    /\ processed = << >>
    /\ hit = None
    /\ train_services = << >>
    /\ passenger_flow = << >>
    /\ labels = EmptyMap

Init ==
    /\ variant \in Variants
    /\ args \in ArgsOf(variant)
    /\ clock = None
    /\ InitState

\* let mut time_series = HashMap::new(); ... (no arguments read)
SetupPlain ==
    /\ pc = "start"
    /\ variant \in {"CSV", "Graph", "Quarter"}
    /\ pc' = "loop"
    /\ UNCHANGED <<variant, args, specified_line, block_size, intervals_per_hour,
                   total_intervals, time_series, selected_business_date,
                   boardings_per_line, alightings_per_line, services_count,
                   processed, hit, clock,
                   train_services, passenger_flow, labels>>

\* Mutant: the argument is kept in the case it was typed in.
SpecifiedLineRaw(a) == IF a = << >> THEN None ELSE Some(a[1])

\* let specified_line = args.get(1).map(|s| s.to_lowercase());
SpecifiedLine(a) == IF a = << >> THEN None ELSE Some(ToLower(a[1]))

SetupQuarterLine ==
    /\ pc = "start"
    /\ variant = "QuarterLine"
    /\ specified_line' = SpecifiedLine(args)
    /\ pc' = "loop"
    /\ UNCHANGED <<variant, args, block_size, intervals_per_hour,
                   total_intervals, time_series, selected_business_date,
                   boardings_per_line, alightings_per_line, services_count,
                   processed, hit, clock,
                   train_services, passenger_flow, labels>>

\* args.get(1).and_then(|s| s.parse().ok()).unwrap_or(5)
BlockSize(a) == IF a = << >> THEN 5 ELSE a[1]

\* 60 / block_size panics for block_size = 0
SetupNmin ==
    /\ pc = "start"
    /\ variant = "Nmin"
    /\ block_size' = BlockSize(args)
    /\ IF block_size' = 0
       THEN /\ pc' = "panicked"
            /\ UNCHANGED <<intervals_per_hour, total_intervals>>
       ELSE /\ intervals_per_hour' = IntervalsPerHour(block_size')
            /\ total_intervals' = TotalIntervals(intervals_per_hour')
            /\ pc' = "loop"
    /\ UNCHANGED <<variant, args, specified_line, time_series,
                   selected_business_date, boardings_per_line,
                   alightings_per_line, services_count, processed, hit, clock,
                   train_services, passenger_flow, labels>>

Apply(r, rec) ==
    /\ time_series' = r.ts
    /\ selected_business_date' = r.sel
    /\ pc' = r.pc
    /\ hit' = r.hit
    /\ processed' = Append(processed, rec)

Totals(rec) ==
    /\ boardings_per_line' =
           AddTo(boardings_per_line, rec.Line_Name, rec.Passenger_Boardings)
    /\ alightings_per_line' =
           AddTo(alightings_per_line, rec.Line_Name, rec.Passenger_Alightings)
    /\ services_count' = AddTo(services_count, rec.Line_Name, 1)

ProcessCSV ==
    /\ pc = "loop"
    /\ variant = "CSV"
    /\ Len(processed) < InputLimit
    /\ \E rec \in Inputs :
          /\ Totals(rec)
          /\ Apply(StepCSV(Mem, rec), rec)
    /\ UNCHANGED <<variant, args, specified_line, block_size,
                   intervals_per_hour, total_intervals, clock,
                   train_services, passenger_flow, labels>>

ProcessGraph ==
    /\ pc = "loop"
    /\ variant = "Graph"
    /\ Len(processed) < InputLimit
    /\ \E rec \in Inputs :
          /\ Totals(rec)
          /\ Apply(StepGraph(Mem, rec), rec)
    /\ UNCHANGED <<variant, args, specified_line, block_size,
                   intervals_per_hour, total_intervals, clock,
                   train_services, passenger_flow, labels>>

ProcessQuarter ==
    /\ pc = "loop"
    /\ variant = "Quarter"
    /\ Len(processed) < InputLimit
    /\ \E rec \in Inputs :
          /\ Totals(rec)
          /\ Apply(StepQuarter(Mem, rec), rec)
    /\ UNCHANGED <<variant, args, specified_line, block_size,
                   intervals_per_hour, total_intervals, clock,
                   train_services, passenger_flow, labels>>

ProcessQuarterLine ==
    /\ pc = "loop"
    /\ variant = "QuarterLine"
    /\ Len(processed) < InputLimit
    /\ \E rec \in Inputs : Apply(StepQuarterLine(Mem, rec), rec)
    /\ UNCHANGED <<variant, args, specified_line, block_size,
                   intervals_per_hour, total_intervals, boardings_per_line,
                   alightings_per_line, services_count, clock,
                   train_services, passenger_flow, labels>>

ProcessNmin ==
    /\ pc = "loop"
    /\ variant = "Nmin"
    /\ Len(processed) < InputLimit
    /\ \E rec \in Inputs : Apply(StepNmin(Mem, rec), rec)
    /\ UNCHANGED <<variant, args, specified_line, block_size,
                   intervals_per_hour, total_intervals, boardings_per_line,
                   alightings_per_line, services_count, clock,
                   train_services, passenger_flow, labels>>

\* Mutant: the decimal is written with one place.
Fixed1(num, den) == 10 * RoundDiv(10 * num, den)

\* "{:.2}" of the f64 num / den, in hundredths: the decimal with two places
\* nearest to it (no quotient of the model lies half way between two)
Fixed2(num, den) == RoundDiv(100 * num, den)

\* the time label written for bucket `interval` of a histogram:
\*   hourly       "{}" of hour
\*   Quarter      "{:.2}" of 3.0 + (time_block as f64 / 4.0)
\*   QuarterLine  "{:02}:{:02}" of 3 + floor(interval / 4), (interval % 4) * 15
\*   Nmin         "{:.2}" of 3.0 + (interval as f64 / intervals_per_hour as f64)
LabelOf(v, interval) ==
    CASE v \in HourlyVariants -> interval
      [] v = "Quarter" -> Fixed2(3 * 4 + interval, 4)
      [] v = "QuarterLine" -> << 3 + interval \div 4, (interval % 4) * 15 >>
      [] v = "Nmin" -> Fixed2(3 * intervals_per_hour + interval, intervals_per_hour)

\* for (interval, &count) in counts.iter().enumerate() { writeln!(...) }
LabelsOf(counts) == [i \in 1..Len(counts) |-> LabelOf(variant, i - 1)]

\* for (line, counts) in &time_series { ... }, nested under the business
\* date in QuarterLine
ExportLabels ==
    IF variant = "QuarterLine"
    THEN [d \in DOMAIN time_series |->
             [l \in DOMAIN time_series[d] |-> LabelsOf(time_series[d][l])]]
    ELSE [l \in DOMAIN time_series |-> LabelsOf(time_series[l])]

\* The input ends: the histograms are exported and main returns Ok(()).
Finish ==
    /\ pc = "loop"
    /\ labels' = ExportLabels
    /\ pc' = "done"
    /\ UNCHANGED <<variant, args, specified_line, block_size, intervals_per_hour,
                   total_intervals, time_series, selected_business_date,
                   boardings_per_line, alightings_per_line, services_count,
                   processed, hit, clock,
                   train_services, passenger_flow>>

Next ==
    \/ SetupPlain
    \/ SetupQuarterLine
    \/ SetupNmin
    \/ ProcessCSV
    \/ ProcessGraph
    \/ ProcessQuarter
    \/ ProcessQuarterLine
    \/ ProcessNmin
    \/ Finish

Spec == Init /\ [][Next]_vars

\* Every clock time 00:00:00 .. 23:59:59 at the first and the last second of
\* its minute, under each program with a positive number of buckets.
ClockTimes == { <<h, m, s>> : h \in 0..23, m \in 0..59, s \in {0, 59} }

ClockArgsOf(v) ==
    IF v = "Nmin" THEN { << >>, <<15>>, <<30>>, <<60>> } ELSE { << >> }

InitClock ==
    /\ variant \in Variants
    /\ args \in ClockArgsOf(variant)
    /\ clock \in { Some(t) : t \in ClockTimes }
    /\ InitState

SpecClock == InitClock /\ [][Next]_vars

-----------------------------------------------------------------------------
(* Properties of the Time Normalizer and the Bucket Mapper (SpecClock)     *)

FractionalVariants == {"Quarter", "QuarterLine", "Nmin"}

\* the record whose histogram access `hit` describes
LastRecord == processed[Len(processed)]
LastTime == LastRecord.Departure_Time_Scheduled

\* a clock time 00:00:00 .. 23:59:59
IsClockTime(t) ==
    /\ Len(t) = 3
    /\ t[1] \in 0..23
    /\ t[2] \in 0..59
    /\ t[3] \in 0..59

SecondOfDay(t) == (t[1] * 60 + t[2]) * 60 + t[3]

\* C1: in every program, the index at which an event with a valid departure
\* time is accumulated lies within the histogram: 0 <= idx <= len - 1.
C1_IndexWithinHistogram ==
    hit # None => hit[1].idx \in 0..(hit[1].len - 1)

\* C2: in the fractional programs the business offset of a valid time is
\* (hour < 3 ? hour + 24 : hour) + minute / 60 - 3 hours, lies in [0, 24)
\* and does not depend on the seconds (offsets are in minutes here).
C2_OffsetFormula ==
    (hit # None /\ variant \in FractionalVariants) =>
        LET h == LastTime[1]
            m == LastTime[2]
            wrapped == IF h < 3 THEN h + 24 ELSE h
        IN  /\ hit[1].offset = 60 * (wrapped - 3) + m
            /\ hit[1].offset >= 0
            /\ hit[1].offset < 24 * 60

C2_Witness ==
    /\ variant = "Nmin"
    /\ hit # None
    /\ LastTime = <<2, 59, 59>>
    /\ hit[1].offset = 23 * 60 + 59

MinuteOfDay(t) == t[1] * 60 + t[2]

\* the clock time at second s of minute q of the day
ClockAt(q, s) == <<q \div 60, q % 60, s>>

\* C3: over 03:00:00 .. 23:59:59 the offset never decreases as the clock
\* time advances and increases with the minute of the day (stated from each
\* time to the next one, second 0 to second 59 and second 59 to the next
\* minute: along the chain of times this is monotonicity); every time in
\* 00:00:00 .. 02:59:59 has an offset in [21, 24) hours, above the offset of
\* every time from 03:00:00 on.
C3_OffsetMonotone ==
    (hit # None /\ variant \in FractionalVariants) =>
        LET t == LastTime
            o == hit[1].offset
        IN  IF t[1] >= 3
            THEN /\ t[3] < 59 =>
                        BusinessOffsetMin(ClockAt(MinuteOfDay(t), 59)) >= o
                 /\ MinuteOfDay(t) < 24 * 60 - 1 =>
                        \A s \in {0, 59} :
                            BusinessOffsetMin(ClockAt(MinuteOfDay(t) + 1, s)) > o
            ELSE /\ o >= 21 * 60
                 /\ o < 24 * 60
                 /\ \A q \in (3 * 60)..(24 * 60 - 1) : \A s \in {0, 59} :
                        o > BusinessOffsetMin(ClockAt(q, s))

C3_Witness ==
    /\ variant = "Quarter"
    /\ hit # None
    /\ LastTime = <<0, 0, 0>>
    /\ hit[1].offset = 21 * 60

-----------------------------------------------------------------------------
(* Properties of the Aggregation Engine (Spec)                             *)

\* the aggregation state when the loop is entered
StartMem == [ts |-> EmptyMap, sel |-> None, pc |-> "loop", hit |-> None]

\* C4: in first-seen-only mode the selected date is unset before the first
\* record and from then on is the date of the first record of the input,
\* whether or not that record's time parses and whatever dates follow.
C4_SelectedDateIsFirstSeen ==
    variant \in FirstSeenVariants =>
        selected_business_date =
            IF processed = << >> THEN None ELSE Some(processed[1].Business_Date)

C4_Witness ==
    /\ variant = "CSV"
    /\ Len(processed) = 3
    /\ processed[1].Business_Date = D2
    /\ ~IsClockTime(processed[1].Departure_Time_Scheduled)
    /\ processed[2].Business_Date = D1
    /\ processed[3].Business_Date = D1
    /\ selected_business_date = Some(D2)

\* C5: in the hourly first-seen-only programs the histograms are those of
\* the input without the records of other dates than the selected one, and
\* the input E1, E2, E3 yields exactly {X: [10, 0, ..., 0]} with 24 buckets.
C5_OtherDatesContributeNothing ==
    (variant \in HourlyVariants /\ processed # << >>) =>
        LET OnSelectedDate(rec) == rec.Business_Date = processed[1].Business_Date
        IN  /\ time_series =
                   Fold(variant, StartMem, SelectSeq(processed, OnSelectedDate)).ts
            /\ processed = <<E1, E2, E3>> =>
                   time_series = (<<"X">> :> [i \in 1..24 |-> IF i = 1 THEN 10 ELSE 0])

C5_Witness ==
    /\ variant = "CSV"
    /\ processed = <<E1, E2, E3>>
    /\ DOMAIN time_series = { <<"X">> }
    /\ time_series[<<"X">>][1] = 10

WellTimed(rec) == IsClockTime(rec.Departure_Time_Scheduled)

\* C6 as claimed: the histograms, and whether the run aborted, are those of
\* the input without the records whose time does not parse.
C6_MalformedAsIfAbsent ==
    processed # << >> =>
        LET r == Fold(variant, StartMem, SelectSeq(processed, WellTimed))
        IN  /\ time_series = r.ts
            /\ (pc = "panicked") = (r.pc = "panicked")

\* the aggregation state when the loop is entered, with the selected date
\* already set to the date of the first record of the input
PinnedMem ==
    [StartMem EXCEPT !.sel =
        IF variant \in FirstSeenVariants /\ processed # << >>
        THEN Some(processed[1].Business_Date) ELSE None]

\* C6 amended: a record whose time does not parse changes no histogram and
\* does not abort the run, and the later records are processed as if it were
\* absent, except that in first-seen-only mode the first record of the input
\* fixes the selected date even when its time does not parse.
C6_MalformedOnlySelectsDate ==
    processed # << >> =>
        LET r == Fold(variant, PinnedMem, SelectSeq(processed, WellTimed))
        IN  /\ time_series = r.ts
            /\ (pc = "panicked") = (r.pc = "panicked")

C6_Witness ==
    /\ variant \in FirstSeenVariants
    /\ Len(processed) = 3
    /\ ~WellTimed(processed[1])
    /\ ~WellTimed(processed[2])
    /\ WellTimed(processed[3])
    /\ hit # None
    /\ pc = "loop"

\* the sequences that hold the records of seq in another order
Reorderings(seq) ==
    { [i \in 1..Len(seq) |-> seq[f[i]]] : f \in Permutations(1..Len(seq)) }

\* C7: in all-dates mode the histograms of every (date, line) are the same
\* for every order of the records read.
C7_OrderIndependent ==
    variant = "QuarterLine" =>
        \A seq \in Reorderings(processed) :
            Fold("QuarterLine", StartMem, seq).ts = time_series

C7_Witness ==
    /\ variant = "QuarterLine"
    /\ Len(processed) = 3
    /\ processed[1] # processed[2]
    /\ processed[2] # processed[3]
    /\ D1 \in DOMAIN time_series
    /\ D2 \in DOMAIN time_series
    /\ \E i \in 1..96 : time_series[D1][<<"x">>][i] = 7

\* C8: with a line filter every line key, under every date, is the
\* lower-cased filter argument, and the histograms are those of the
\* unfiltered aggregation of the records of that line alone.
C8_OnlyFilteredLine ==
    (variant = "QuarterLine" /\ args # << >> /\ pc # "start") =>
        LET wanted == ToLower(args[1])
            OfLine(rec) == ToLower(rec.Line_Name) = wanted
        IN  /\ \A d \in DOMAIN time_series : DOMAIN time_series[d] \subseteq {wanted}
            /\ time_series =
                   FoldQuarterLine(None, StartMem, SelectSeq(processed, OfLine)).ts

C8_Witness ==
    /\ variant = "QuarterLine"
    /\ args = << <<"P", "k">> >>
    /\ \E i, j \in 1..Len(processed) :
          /\ processed[i].Line_Name = <<"p", "K">>
          /\ WellTimed(processed[i])
          /\ processed[j].Line_Name = <<"X">>
          /\ WellTimed(processed[j])
    /\ \A d \in DOMAIN time_series : DOMAIN time_series[d] = { <<"p", "k">> }
    /\ time_series # EmptyMap

\* the keys of the result mapping
ResultKeys ==
    IF variant = "QuarterLine"
    THEN UNION { { <<d, l>> : l \in DOMAIN time_series[d] } : d \in DOMAIN time_series }
    ELSE DOMAIN time_series

\* the key under which a record is accumulated
KeyOf(rec) ==
    CASE variant = "QuarterLine" -> <<rec.Business_Date, ToLower(rec.Line_Name)>>
      [] variant = "Nmin" -> ToLower(rec.Line_Name)
      [] OTHER -> rec.Line_Name

PassedLineFilter(rec) ==
    (variant = "QuarterLine" /\ args # << >>) =>
        ToLower(rec.Line_Name) = ToLower(args[1])

\* generateGraph.rs also wants the selected date to be a calendar date
PassedDateFilter(rec) ==
    variant \in FirstSeenVariants =>
        /\ rec.Business_Date = processed[1].Business_Date
        /\ variant = "Graph" => ParseDateOk(rec.Business_Date)

\* C9: the result mapping holds a key exactly when a record of that key
\* passed the line filter, the date filter and the time parsing, and in
\* all-dates mode no date maps to an empty map.
C9_KeysAreContributions ==
    /\ ResultKeys =
           { KeyOf(processed[i]) :
                 i \in { j \in 1..Len(processed) :
                           /\ PassedLineFilter(processed[j])
                           /\ PassedDateFilter(processed[j])
                           /\ WellTimed(processed[j]) } }
    /\ variant = "QuarterLine" =>
           \A d \in DOMAIN time_series : DOMAIN time_series[d] # {}

C9_Witness ==
    /\ variant = "QuarterLine"
    /\ args = << <<"x">> >>
    /\ Len(processed) = 3
    /\ processed[1].Line_Name = <<"P", "k">>
    /\ WellTimed(processed[1])
    /\ processed[2].Line_Name = <<"X">>
    /\ processed[2].Business_Date = D1
    /\ ~WellTimed(processed[2])
    /\ processed[3] = E3
    /\ ResultKeys = { <<D2, <<"x">>>> }

\* C10: every histogram of the N-minute program has (24 * 60) / N buckets.
C10_BucketsCoverTheDay ==
    variant = "Nmin" =>
        \A l \in DOMAIN time_series :
            Len(time_series[l]) = (24 * 60) \div block_size

-----------------------------------------------------------------------------
(* Configuration errors (Spec)                                             *)

\* the N-minute program is asked for a bucket count that is not positive
NonPositiveBuckets ==
    /\ variant = "Nmin"
    /\ args # << >>
    /\ \/ args[1] = 0
       \/ (24 - 3) * (60 \div args[1]) <= 0

\* C11: a configuration with a non-positive bucket count never crashes the
\* run, never completes it as if nothing were wrong and never yields a
\* zero-length histogram: the run ends in a configuration error.
C11_ConfigurationErrorSurfaced ==
    NonPositiveBuckets =>
        /\ pc \notin {"panicked", "done"}
        /\ \A l \in DOMAIN time_series : Len(time_series[l]) > 0

\* C12: a run with a line filter that no record of the input matches does
\* not complete successfully.
C12_UnmatchedFilterSurfaced ==
    (variant = "QuarterLine" /\ args # << >> /\ processed # << >> /\ pc = "done") =>
        \E i \in 1..Len(processed) :
            ToLower(processed[i].Line_Name) = ToLower(args[1])

-----------------------------------------------------------------------------
(* The bucket formula of the Bucket Mapper (SpecClock)                     *)

Min(a, b) == IF a < b THEN a ELSE b

\* round(offset * buckets / 24) clamped to buckets - 1, the offset in minutes
MapperIndex(offsetMin, buckets) ==
    Min((2 * offsetMin * buckets + 24 * 60) \div (2 * 24 * 60), buckets - 1)

\* C16: with a block size that divides 60 the N-minute program accumulates a
\* valid time at min(round(offset * B / 24), B - 1), B the histogram length,
\* and a departure in the hour after midnight is not in the last bucket.
C16_NminFollowsMapperFormula ==
    (variant = "Nmin" /\ hit # None /\ 60 % block_size = 0) =>
        /\ hit[1].idx = MapperIndex(hit[1].offset, hit[1].len)
        /\ LastTime[1] = 0 => hit[1].idx < hit[1].len - 1

\* the business offset of a clock time, in minutes (section 3 of the design)
OffsetOfClock(t) == 60 * ((IF t[1] < 3 THEN t[1] + 24 ELSE t[1]) - 3) + t[2]

\* C17 as claimed: the hourly programs use bucket (hour < 3 ? hour + 21 :
\* hour - 3), within [0, 23], which is the bucket of the general formula.
C17_HourlyEqualsMapperFormula ==
    (variant \in HourlyVariants /\ hit # None) =>
        /\ hit[1].idx = (IF LastTime[1] < 3 THEN LastTime[1] + 21 ELSE LastTime[1] - 3)
        /\ hit[1].idx \in 0..23
        /\ hit[1].idx = MapperIndex(OffsetOfClock(LastTime), 24)

\* C17 amended: the hourly bucket is (hour < 3 ? hour + 21 : hour - 3),
\* within [0, 23]; it is the whole hours of the business offset, and it is
\* the bucket of the general formula exactly in the first 30 minutes of an
\* hour and in the last business hour, where the clamp applies.
C17_HourlyIsFloorOfOffset ==
    (variant \in HourlyVariants /\ hit # None) =>
        /\ hit[1].idx = (IF LastTime[1] < 3 THEN LastTime[1] + 21 ELSE LastTime[1] - 3)
        /\ hit[1].idx \in 0..23
        /\ hit[1].idx = OffsetOfClock(LastTime) \div 60
        /\ (hit[1].idx = MapperIndex(OffsetOfClock(LastTime), 24))
               = (LastTime[2] < 30 \/ hit[1].idx = 23)

C17_Witness ==
    /\ variant = "Graph"
    /\ hit # None
    /\ LastTime = <<3, 30, 0>>
    /\ hit[1].idx = 0
    /\ MapperIndex(OffsetOfClock(LastTime), 24) = 1

-----------------------------------------------------------------------------
(* The life of a histogram, and the whole-of-file totals (Spec)            *)

\* the histograms of a result, under their flat keys
FlatKeys(ts) ==
    IF variant = "QuarterLine"
    THEN UNION { { <<d, l>> : l \in DOMAIN ts[d] } : d \in DOMAIN ts }
    ELSE DOMAIN ts

HistogramAt(ts, k) == IF variant = "QuarterLine" THEN ts[k[1]][k[2]] ELSE ts[k]

\* the length a histogram of the running program is created with
HistogramLength ==
    CASE variant \in HourlyVariants -> 24
      [] variant \in {"Quarter", "QuarterLine"} -> 96
      [] OTHER -> (24 - 3) * (60 \div block_size)

\* C18: in every step no histogram key is lost, every histogram has the
\* length it was created with, a histogram created by the step is zero
\* except for the contribution of the step, and no bucket decreases or is
\* negative.
C18_HistogramsOnlyGrow ==
    [][ /\ FlatKeys(time_series) \subseteq FlatKeys(time_series')
        /\ \A k \in FlatKeys(time_series') :
              LET new == HistogramAt(time_series', k)
              IN  /\ Len(new) = HistogramLength
                  /\ \A i \in 1..Len(new) : new[i] >= 0
                  /\ IF k \in FlatKeys(time_series)
                     THEN LET old == HistogramAt(time_series, k)
                          IN  /\ Len(new) = Len(old)
                              /\ \A i \in 1..Len(new) : new[i] >= old[i]
                     ELSE /\ hit' # None
                          /\ hit'[1].key = k
                          /\ \A i \in 1..Len(new) :
                                new[i] = IF i = hit'[1].idx + 1
                                         THEN Movement(processed'[Len(processed')])
                                         ELSE 0
      ]_vars

C18_Witness ==
    /\ variant = "QuarterLine"
    /\ Len(processed) = 3
    /\ Cardinality(FlatKeys(time_series)) = 2
    /\ \E k \in FlatKeys(time_series) : HistogramAt(time_series, k)[2] = 7

RECURSIVE SumSeq(_)
SumSeq(seq) ==
    CASE Len(seq) = 0 -> 0
      [] Len(seq) = 1 -> seq[1]
      [] OTHER -> LET mid == Len(seq) \div 2
                  IN  SumSeq(SubSeq(seq, 1, mid))
                          + SumSeq(SubSeq(seq, mid + 1, Len(seq)))

\* the records read so far that name a line
RecordsOf(l) == SelectSeq(processed, LAMBDA rec : rec.Line_Name = l)

Field(seq, f) == [i \in 1..Len(seq) |-> seq[i][f]]

\* the sum of the hourly buckets of a line (no histogram: nothing counted)
BucketSum(l) == IF l \in DOMAIN time_series THEN SumSeq(time_series[l]) ELSE 0

TotalMovement(l) == boardings_per_line[l] + alightings_per_line[l]

TotalsCountEveryRecord(l) ==
    /\ boardings_per_line[l] = SumSeq(Field(RecordsOf(l), "Passenger_Boardings"))
    /\ alightings_per_line[l] = SumSeq(Field(RecordsOf(l), "Passenger_Alightings"))
    /\ services_count[l] = Len(RecordsOf(l))

OnSelectedDateWithValidTime(rec) ==
    /\ rec.Business_Date = selected_business_date[1]
    /\ ParseTimeOk(rec.Departure_Time_Scheduled)

\* C19 as claimed: the totals of a line count every record, the buckets of
\* the line sum to at most its total movement, and to exactly that when and
\* only when each of its records is on the selected date with a valid time.
C19_EqualityIffAllOnSelectedDate ==
    (variant \in HourlyVariants /\ pc \in {"loop", "done"}) =>
        \A l \in DOMAIN boardings_per_line :
            /\ TotalsCountEveryRecord(l)
            /\ BucketSum(l) <= TotalMovement(l)
            /\ (BucketSum(l) = TotalMovement(l))
                   = (\A i \in 1..Len(RecordsOf(l)) :
                          OnSelectedDateWithValidTime(RecordsOf(l)[i]))

\* a record the hourly program adds to a histogram
Contributes(rec) ==
    /\ OnSelectedDateWithValidTime(rec)
    /\ variant = "Graph" => ParseDateOk(rec.Business_Date)

\* C19 amended: the totals of a line count every record, the buckets of the
\* line sum to the movement of its contributing records (on the selected
\* date, with a valid time and, in generateGraph, a calendar date), hence to
\* at most the total movement, and to exactly that when and only when each
\* record of the line that does not contribute has no movement.
C19_EqualityIffRejectedAreEmpty ==
    (variant \in HourlyVariants /\ pc \in {"loop", "done"}) =>
        \A l \in DOMAIN boardings_per_line :
            LET mine == RecordsOf(l)
                counted == SelectSeq(mine, Contributes)
            IN  /\ TotalsCountEveryRecord(l)
                /\ BucketSum(l) = SumSeq([i \in 1..Len(counted) |-> Movement(counted[i])])
                /\ BucketSum(l) <= TotalMovement(l)
                /\ (BucketSum(l) = TotalMovement(l))
                       = (\A i \in 1..Len(mine) :
                              Contributes(mine[i]) \/ Movement(mine[i]) = 0)

C19_Witness ==
    /\ variant = "Graph"
    /\ Len(processed) = 2
    /\ processed[1] = E1
    /\ processed[2].Line_Name = E1.Line_Name
    /\ processed[2].Business_Date = D2
    /\ BucketSum(E1.Line_Name) = 5
    /\ TotalMovement(E1.Line_Name) = 5

-----------------------------------------------------------------------------
(* The Flow Estimator (pakenham.rs)                                        *)
(*                                                                         *)
(* A time in minutes is held in units of 1/(60 * 100) minute, in which     *)
(* every sample time is an integer; a load is held in hundredths of a      *)
(* passenger, or is NaN.  Only the fields of TrainService that the program *)
(* reads again are kept, and arrival_load, which it stores.                *)

\* The longest timetable the Flow Estimator reads.
MaxRows == 2

num_points == 100

UnitsPerMinute == 60 * num_points

Row(arr, dep, b, a, al, dl) ==
    [arrival_time |-> arr, departure_time |-> dep, boardings |-> b,
     alightings |-> a, arrival_load |-> al, departure_load |-> dl]

R1 == Row(<<8, 0, 0>>, <<8, 10, 0>>, 10, 0, 40, 50)

Rows ==
    { R1,
      Row(<<9, 0, 0>>, <<9, 0, 0>>, 3, 1, 20, 22),
      Row(<<9, 0, 0>>, <<9, 0, 0>>, 0, 0, 5, 5),
      Row(<< >>, <<9, 5, 0>>, 1, 1, 9, 9),
      Row(<<7, 0, 0>>, <<25, 61, 0>>, 2, 0, 1, 3),
      Row(<<23, 59, 0>>, <<23, 59, 1>>, 0, 7, 30, 23),
      Row(<<10, 0, 0>>, <<9, 59, 0>>, 1, 1, 8, 8),
      Row(<<0, 0, 0>>, <<0, 1, 40>>, 2, 5, 10, 7) }

\* NaiveTime::parse_from_str(time_str, "%H:%M:%S").ok()
parse_time(time_str) == IF ParseTimeOk(time_str) THEN Some(time_str) ELSE None

\* one iteration of the loop of read_data: a row whose arrival or departure
\* time does not parse is passed over
ReadLine(services, row) ==
    IF parse_time(row.arrival_time) = None \/ parse_time(row.departure_time) = None
    THEN services
    ELSE Append(services, row)

\* a parsed second of 60 is kept as second 59 with a fraction
num_seconds_from_midnight(t) ==
    t[1] * 3600 + t[2] * 60 + (IF t[3] > 59 THEN 59 ELSE t[3])

\* num_seconds_from_midnight() as f64 / 60.0
arrival_minutes(service) ==
    num_seconds_from_midnight(service.arrival_time) * num_points

departure_minutes(service) ==
    num_seconds_from_midnight(service.departure_time) * num_points

Finite(hundredths) == [nan |-> FALSE, x |-> hundredths]
NaN == [nan |-> TRUE, x |-> 0]

\* Mutant: the loop runs to num_points inclusive.
SampleIndicesInclusive == 1..num_points

\* for i in 1..num_points
SampleIndices == 1..(num_points - 1)

\* arrival_minutes + (departure_minutes - arrival_minutes) * i / num_points
SampleTime(service, i) ==
    arrival_minutes(service)
        + ((departure_minutes(service) - arrival_minutes(service)) * i) \div num_points

\* departure_load + rate_of_change * (t - arrival_minutes), where
\* rate_of_change = (boardings - alightings) / (departure - arrival): the
\* product is (boardings - alightings) * i / num_points, and for a zero
\* dwell rate_of_change is infinite or NaN and its product with 0.0 is NaN
passengers_at_t(service, i) ==
    IF departure_minutes(service) = arrival_minutes(service)
    THEN NaN
    ELSE Finite(service.departure_load * 100
                    + (service.boardings - service.alightings) * i)

\* the samples pushed for one service
ServiceFlow(service) ==
    LET n == Cardinality(SampleIndices)
    IN  << [t |-> arrival_minutes(service),
            load |-> Finite(service.departure_load * 100)] >>
        \o [i \in 1..n |-> [t |-> SampleTime(service, i),
                            load |-> passengers_at_t(service, i)]]

RECURSIVE calculate_passenger_flow(_)
calculate_passenger_flow(services) ==
    IF services = << >> THEN << >>
    ELSE ServiceFlow(Head(services)) \o calculate_passenger_flow(Tail(services))

InitFlow ==
    /\ variant = "Flow"
    /\ args = << >>
    /\ clock = None
    /\ pc = "read"
    /\ specified_line = None
    /\ block_size = 0
    /\ intervals_per_hour = 0
    /\ total_intervals = 0
    /\ time_series = EmptyMap
    /\ selected_business_date = None
    /\ boardings_per_line = EmptyMap
    /\ alightings_per_line = EmptyMap
    /\ services_count = EmptyMap
    /\ processed = << >>
    /\ hit = None
    /\ train_services = << >>
    /\ passenger_flow = << >>
    /\ labels = EmptyMap

FlowUnchanged ==
    UNCHANGED <<variant, args, specified_line, block_size, intervals_per_hour,
                total_intervals, time_series, selected_business_date,
                boardings_per_line, alightings_per_line, services_count,
                hit, clock, labels>>

\* for line in reader.lines().skip(1) { ... }
FlowReadRow ==
    /\ pc = "read"
    /\ Len(processed) < MaxRows
    /\ \E row \in Rows :
          /\ train_services' = ReadLine(train_services, row)
          /\ processed' = Append(processed, row)
    /\ UNCHANGED <<pc, passenger_flow>>
    /\ FlowUnchanged

\* read_data returns; let passenger_flow = calculate_passenger_flow(train_services)
FlowCalculate ==
    /\ pc = "read"
    /\ passenger_flow' = calculate_passenger_flow(train_services)
    /\ pc' = "calculated"
    /\ UNCHANGED <<train_services, processed>>
    /\ FlowUnchanged

\* for (time, passengers) in passenger_flow { println!(...) }
FlowPrint ==
    /\ pc = "calculated"
    /\ pc' = "done"
    /\ UNCHANGED <<train_services, passenger_flow, processed>>
    /\ FlowUnchanged

NextFlow ==
    \/ FlowReadRow
    \/ FlowCalculate
    \/ FlowPrint

SpecFlow == InitFlow /\ [][NextFlow]_vars

-----------------------------------------------------------------------------
(* Properties of the Flow Estimator (SpecFlow)                             *)

\* calculate_passenger_flow has returned
FlowCalculated == variant = "Flow" /\ pc \in {"calculated", "done"}

\* a clock time in hundredths of a second since midnight
Centiseconds(t) == ((t[1] * 60 + t[2]) * 60 + t[3]) * 100

\* the samples of the k-th service, had each service exactly 100 of them
Block(k) == SubSeq(passenger_flow, 100 * (k - 1) + 1, 100 * k)

\* C13: the output is one block of 100 samples per service, in input order;
\* for a service that departs after it arrives the block starts with the
\* anchor (arrival, departure load) and continues with the samples at
\* arrival + i * (departure - arrival) / 100 for i = 1..99, in strictly
\* increasing time order, all within [arrival, departure].
C13_HundredSamplesPerService ==
    FlowCalculated =>
        /\ Len(passenger_flow) = 100 * Len(train_services)
        /\ \A k \in 1..Len(train_services) :
              LET arrival == Centiseconds(train_services[k].arrival_time)
                  departure == Centiseconds(train_services[k].departure_time)
                  block == Block(k)
              IN  departure > arrival =>
                     /\ block[1].t = arrival
                     /\ block[1].load = Finite(100 * train_services[k].departure_load)
                     /\ \A i \in 1..99 :
                           /\ 100 * block[i + 1].t = 100 * arrival + i * (departure - arrival)
                           /\ block[i + 1].t > block[i].t
                           /\ block[i + 1].t >= arrival
                           /\ block[i + 1].t <= departure

C13_Witness ==
    /\ FlowCalculated
    /\ Len(train_services) = 2
    /\ train_services[2] = R1
    /\ train_services[1].departure_time = <<0, 1, 40>>
    /\ Len(passenger_flow) = 200
    /\ passenger_flow[101].t = Centiseconds(<<8, 0, 0>>)

\* C14: the service 08:00:00 -> 08:10:00 with 10 boardings, no alightings
\* and departure load 50 gives 100 samples from minute 480 within minutes
\* 480 .. 490, and the sample at minute 485 has load 45.
C14_MidpointLoadIs45 ==
    (FlowCalculated /\ train_services = << R1 >>) =>
        /\ Len(passenger_flow) = 100
        /\ passenger_flow[1].t = 480 * 6000
        /\ \A j \in 1..Len(passenger_flow) :
              /\ passenger_flow[j].t >= 480 * 6000
              /\ passenger_flow[j].t <= 490 * 6000
        /\ \E j \in 1..Len(passenger_flow) : passenger_flow[j].t = 485 * 6000
        /\ \A j \in 1..Len(passenger_flow) :
              passenger_flow[j].t = 485 * 6000 =>
                  passenger_flow[j].load = Finite(45 * 100)

ZeroDwell(service) == service.departure_time = service.arrival_time

\* C15: a service that departs at the time it arrives adds no sample, and
\* no sample carries an infinite or undefined load.
C15_ZeroDwellSkipped ==
    FlowCalculated =>
        /\ Len(passenger_flow) =
               100 * Len(SelectSeq(train_services, LAMBDA sv : ~ZeroDwell(sv)))
        /\ \A j \in 1..Len(passenger_flow) : ~passenger_flow[j].load.nan

\* C20: the block of a service that departs after it arrives starts at its
\* arrival load and moves linearly towards its departure load.
C20_InterpolatesArrivalToDepartureLoad ==
    FlowCalculated =>
        \A k \in 1..Len(train_services) :
            LET sv == train_services[k]
                block == Block(k)
            IN  Centiseconds(sv.departure_time) > Centiseconds(sv.arrival_time) =>
                   /\ block[1].load = Finite(100 * sv.arrival_load)
                   /\ \A i \in 1..99 :
                         block[i + 1].load =
                             Finite(100 * sv.arrival_load
                                        + (sv.departure_load - sv.arrival_load) * i)

-----------------------------------------------------------------------------
(* Order of the input in first-seen-only mode (Spec)                       *)

\* C21: in the programs that keep the first date seen, reading the same
\* records in another order that starts with a record of the same business
\* date selects the same date and gives the same histograms (and ends in a
\* panic exactly when this run does).
C21_OrderMattersOnlyThroughFirstDate ==
    (variant \in FirstSeenVariants /\ processed # << >>) =>
        \A seq \in Reorderings(processed) :
            seq[1].Business_Date = processed[1].Business_Date =>
                LET r == Fold(variant, StartMem, seq)
                IN  /\ r.sel = selected_business_date
                    /\ (r.pc = "panicked") = (pc = "panicked")
                    /\ pc # "panicked" => r.ts = time_series

C21_Witness ==
    /\ variant = "Nmin"
    /\ args = << >>
    /\ Len(processed) = 3
    /\ processed[1] = E2
    /\ processed[2].Business_Date = D2
    /\ processed[3].Business_Date = D1
    /\ processed[3].Line_Name = <<"x">>
    /\ time_series[<<"x">>][3] = 7

-----------------------------------------------------------------------------
(* The labels of the exporters (Spec)                                      *)

\* round((label - 3) * bucketsPerHour), the label in hundredths of an hour
IndexOfDecimal(label, bucketsPerHour) ==
    (2 * (label - 300) * bucketsPerHour + 100) \div 200

\* the same, the label an hour and a minute
IndexOfClockLabel(label, bucketsPerHour) ==
    (2 * (label[1] * 60 + label[2] - 180) * bucketsPerHour + 60) \div 120

IndexOfLabel(label) ==
    CASE variant = "Quarter" -> IndexOfDecimal(label, 4)
      [] variant = "QuarterLine" -> IndexOfClockLabel(label, 4)
      [] variant = "Nmin" -> IndexOfDecimal(label, 60 \div block_size)

\* the label as a time, in hundredths of a minute since midnight
TimeOfLabel(label) ==
    IF variant = "QuarterLine"
    THEN (label[1] * 60 + label[2]) * 100
    ELSE label * 60

\* C22: the exporters of the 15-minute and N-minute programs write one label
\* per bucket; the label of bucket i, read as hours since midnight, maps back
\* to i under round((label - 3) * bucketsPerHour), and the labels of a
\* histogram are strictly increasing.
C22_LabelsInvertBucketFormula ==
    (variant \in FractionalVariants /\ pc = "done") =>
        /\ FlatKeys(labels) = FlatKeys(time_series)
        /\ \A k \in FlatKeys(labels) :
              LET written == HistogramAt(labels, k)
              IN  /\ Len(written) = Len(HistogramAt(time_series, k))
                  /\ \A i \in 1..Len(written) :
                        /\ IndexOfLabel(written[i]) = i - 1
                        /\ i > 1 => TimeOfLabel(written[i]) > TimeOfLabel(written[i - 1])

C22_Witness ==
    /\ variant = "Nmin"
    /\ args = << >>
    /\ pc = "done"
    /\ <<"x">> \in DOMAIN labels
    /\ Len(labels[<<"x">>]) = 252
    /\ labels[<<"x">>][2] = 308
    /\ labels[<<"x">>][252] = 2392

-----------------------------------------------------------------------------
(* Conservation of the movements (Spec)                                    *)

\* record i of seq passes the line filter, the date filter and time parsing
AcceptedIn(seq, i) ==
    /\ PassedLineFilter(seq[i])
    /\ variant \in FirstSeenVariants =>
           /\ seq[i].Business_Date = seq[1].Business_Date
           /\ variant = "Graph" => ParseDateOk(seq[i].Business_Date)
    /\ WellTimed(seq[i])

AcceptedMovement(seq) ==
    SumSeq([i \in 1..Len(seq) |-> IF AcceptedIn(seq, i) THEN Movement(seq[i]) ELSE 0])

RECURSIVE SumOfHistograms(_, _)
SumOfHistograms(ts, keys) ==
    IF keys = {} THEN 0
    ELSE LET k == CHOOSE x \in keys : TRUE
         IN  SumSeq(HistogramAt(ts, k)) + SumOfHistograms(ts, keys \ {k})

TotalBuckets(ts) == SumOfHistograms(ts, FlatKeys(ts))

\* bucket i of histogram k, 0 where there is no such histogram
BucketAt(ts, k, i) == IF k \in FlatKeys(ts) THEN HistogramAt(ts, k)[i] ELSE 0

\* the step adds n to one bucket of one histogram and changes nothing else
AddsToOneBucket(old, new, n) ==
    \E k \in FlatKeys(new) :
        /\ FlatKeys(new) = FlatKeys(old) \cup {k}
        /\ \E i \in 1..Len(HistogramAt(new, k)) :
              /\ BucketAt(new, k, i) = BucketAt(old, k, i) + n
              /\ \A j \in 1..Len(HistogramAt(new, k)) :
                    j # i => BucketAt(new, k, j) = BucketAt(old, k, j)
        /\ \A k2 \in FlatKeys(old) :
              k2 # k => HistogramAt(new, k2) = HistogramAt(old, k2)

\* C23: after every step the buckets of all histograms sum to the movement
\* of the records read that passed the line filter, the date filter and
\* time parsing; a step that reads such a record adds its movement to one
\* bucket of one histogram and changes no other, and a step that reads any
\* other record changes no histogram.
C23_Conservation ==
    [][ /\ TotalBuckets(time_series') = AcceptedMovement(processed')
        /\ processed' # processed =>
              IF AcceptedIn(processed', Len(processed'))
              THEN AddsToOneBucket(time_series, time_series',
                                   Movement(processed'[Len(processed')]))
              ELSE time_series' = time_series
      ]_vars

-----------------------------------------------------------------------------
(* The centring of the 15-minute buckets (SpecClock)                       *)

\* the quarter-hour mark nearest to a time, counted from 03:00; no minute
\* is half way between two marks
NearestQuarter(t) == (OffsetOfClock(t) + 7) \div 15

\* C24: in the two 15-minute programs a departure is added to the bucket of
\* the quarter-hour mark nearest to it, the clamped program using bucket 95
\* where the nearest mark is the next 03:00; so bucket 0 holds exactly 03:00
\* to 03:07, 03:08 is in bucket 1, and in the clamped program bucket 95
\* holds exactly 02:38 to 02:59.
C24_BucketsCentredOnQuarterHours ==
    (variant \in {"Quarter", "QuarterLine"} /\ hit # None) =>
        /\ pc # "panicked"
        /\ hit[1].idx < hit[1].len
        /\ hit[1].idx = IF variant = "QuarterLine" /\ NearestQuarter(LastTime) > 95
                        THEN 95
                        ELSE NearestQuarter(LastTime)
        /\ (hit[1].idx = 0) = (LastTime[1] = 3 /\ LastTime[2] <= 7)
        /\ (LastTime[1] = 3 /\ LastTime[2] = 8) => hit[1].idx = 1
        /\ variant = "QuarterLine" =>
               (hit[1].idx = 95) = (LastTime[1] = 2 /\ LastTime[2] >= 38)

====
